---- MODULE Spec2Model ----
(***************************************************************************)
(* dx7dump (src/main.cpp): reads a Yamaha DX7 32-voice bulk dump, verifies *)
(* its header, trailer and checksum, lists the 32 voices (short or long    *)
(* form) and optionally reports duplicate voices.                          *)
(*                                                                         *)
(* The file is a sequence of bytes; the byte at C offset o is buffer[o+1]. *)
(* struct DX7Sysex is a view over it (main.cpp:436).  Bit-fields are laid  *)
(* out as g++ does on little-endian targets (the build named at            *)
(* main.cpp:17): the first declared bit-field takes the low bits.          *)
(***************************************************************************)
EXTENDS Integers, Sequences, FiniteSets, TLC

VARIABLES
    pc,                   \* position in main()
    displayLongListing,   \* main.cpp:408
    shouldFindDuplicates, \* main.cpp:409
    patchToDisplay,       \* main.cpp:410
    argc,                 \* arguments left after the options (main.cpp:219)
    buffer,               \* main.cpp:428
    verifyRc,             \* value returned by verify(), -1 before the call
    voiceNumber,          \* loop variable of format(), main.cpp:282
    out,                  \* lines written to standard output, in order
    exitCode,             \* -1 while running
    x,                    \* argument of the rendering function under test
    rendered              \* its result

vars == <<pc, displayLongListing, shouldFindDuplicates, patchToDisplay, argc,
          buffer, verifyRc, voiceNumber, out, exitCode, x, rendered>>

mainVars == <<pc, displayLongListing, shouldFindDuplicates, patchToDisplay, argc,
              buffer, verifyRc, voiceNumber, out, exitCode>>

---------------------------------------------------------------------------
(* Program constants.                                                      *)

sysexSize == 4104

NumVoices == 32

PayloadSize == 4096

VoiceSize == 128

OperatorSize == 17

NumOperators == 6

NameSize == 10

HeaderSize == 6

Filename == "bank.syx"

OutOfRange == "*out of range*"

---------------------------------------------------------------------------
(* Bytes and C arithmetic.                                                 *)

\* conversion to unsigned char
ToUChar(n) == n % 256

\* C integer division: truncation toward zero
CDiv(a, b) == IF a >= 0 THEN a \div b ELSE -((-a) \div b)

\* the w-bit bit-field that starts at bit lo of byte b
Bits(b, lo, w) == (b \div (2 ^ lo)) % (2 ^ w)

\* byte of the file at C offset o
At(buf, o) == buf[o + 1]

\* std::setfill('0') << std::setw(2) << n, for n >= 0
Pad2(n) == IF n < 10 THEN "0" \o ToString(n) ELSE ToString(n)

---------------------------------------------------------------------------
(* Lookup tables and rendering functions, main.cpp:98-162.                 *)

onOff(v) == IF v > 1 THEN OutOfRange ELSE <<"Off", "On">>[v + 1]

curve(v) == IF v > 3 THEN OutOfRange ELSE <<"-LIN", "-EXP", "+EXP", "+LIN">>[v + 1]

lfoWave(v) ==
    IF v > 5 THEN OutOfRange
    ELSE <<"Triangle", "Sawtooth Down", "Sawtooth Up", "Square", "Sine",
           "Sample and Hold">>[v + 1]

mode(v) == IF v > 1 THEN OutOfRange ELSE <<"Ratio", "Fixed">>[v + 1]

note(v) ==
    <<"C", "C#", "D", "D#", "E", "F", "F#", "G", "G#", "A", "A#", "B">>[(v % 12) + 1]

\* a plausible slip: the range test written with >= instead of >
transposeOffByOne(v) ==
    IF v >= 48 THEN OutOfRange ELSE note(v) \o ToString(CDiv(v, 12) + 1)

transpose(v) ==
    IF v > 48 THEN OutOfRange ELSE note(v) \o ToString(CDiv(v, 12) + 1)

\* a plausible slip: the octave computed without the +12 / -1 shift
breakPointNoShift(v) ==
    IF v > 99 THEN OutOfRange
    ELSE LET octave == CDiv(v - 3, 12)
         IN  note(v + 9) \o ToString(octave)

breakPoint(v) ==
    IF v > 99 THEN OutOfRange
    ELSE LET octave == CDiv(v - 3 + 12, 12) - 1
         IN  note(v + 9) \o ToString(octave)

---------------------------------------------------------------------------
(* struct DX7Sysex, VoicePacked and OperatorPacked as views over the file, *)
(* main.cpp:30-94.                                                         *)

\* byte k of sysex->voices[v]
VoiceByte(buf, v, k) == At(buf, HeaderSize + VoiceSize * v + k)

\* byte k of sysex->voices[v].operators[j]
OperatorByte(buf, v, j, k) == VoiceByte(buf, v, OperatorSize * j + k)

ChecksumOffset == HeaderSize + PayloadSize

EndOffset == HeaderSize + PayloadSize + 1

OperatorPacked(buf, v, j) ==
    LET b(k) == OperatorByte(buf, v, j, k)
    IN  [egRate1 |-> b(0), egRate2 |-> b(1), egRate3 |-> b(2), egRate4 |-> b(3),
         egLevel1 |-> b(4), egLevel2 |-> b(5), egLevel3 |-> b(6), egLevel4 |-> b(7),
         levelScaleBreakPoint |-> b(8),
         levelScaleLeftDepth |-> b(9),
         levelScaleRightDepth |-> b(10),
         levelScaleLeftCurve |-> Bits(b(11), 0, 2),
         levelScaleRightCurve |-> Bits(b(11), 2, 2),
         oscillatorRateScale |-> Bits(b(12), 0, 3),
         detune |-> Bits(b(12), 3, 4),
         amplitudeModulationSensitivity |-> Bits(b(13), 0, 2),
         keyVelocitySensitivity |-> Bits(b(13), 2, 3),
         outputLevel |-> b(14),
         oscillatorMode |-> Bits(b(15), 0, 1),
         frequencyCoarse |-> Bits(b(15), 1, 5),
         frequencyFine |-> b(16)]

\* every member of VoicePacked but operators[] and name[]
VoicePacked(buf, v) ==
    LET b(k) == VoiceByte(buf, v, OperatorSize * NumOperators + k)
    IN  [pitchEgRate1 |-> b(0), pitchEgRate2 |-> b(1),
         pitchEgRate3 |-> b(2), pitchEgRate4 |-> b(3),
         pitchEgLevel1 |-> b(4), pitchEgLevel2 |-> b(5),
         pitchEgLevel3 |-> b(6), pitchEgLevel4 |-> b(7),
         algorithm |-> Bits(b(8), 0, 5),
         feedback |-> Bits(b(9), 0, 3),
         oscillatorKeySync |-> Bits(b(9), 3, 1),
         lfoRate |-> b(10),
         lfoDelay |-> b(11),
         lfoPitchModulationDepth |-> b(12),
         lfoAmplitudeModulationDepth |-> b(13),
         lfoKeySync |-> Bits(b(14), 0, 1),
         lfoWave |-> Bits(b(14), 1, 3),
         lfoPitchModulationSensitivity |-> Bits(b(14), 4, 4),
         transpose |-> b(15)]

\* sysex->voices[v].name
VoiceName(buf, v) ==
    [k \in 1..NameSize |-> VoiceByte(buf, v, VoiceSize - NameSize + k - 1)]

\* what operator<< prints of a char array: the bytes before the first 0
RECURSIVE CStr(_)
CStr(s) == IF s = <<>> \/ Head(s) = 0 THEN <<>> ELSE <<Head(s)>> \o CStr(Tail(s))

---------------------------------------------------------------------------
(* format(), main.cpp:281-386: the text of one voice.                      *)

\* "NN (text)"
WithText(n, text) == Pad2(n) \o " (" \o text \o ")"

\* a plausible slip: the operators taken in disk order
OperatorSlotForward(i) == i

\* the disk slot shown as operator i+1 (main.cpp:334)
OperatorSlot(i) == 5 - i

\* the section printed for operator record op by iteration i of the operator
\* loop, main.cpp:331 and 337-381
OperatorText(op, i) ==
        [operator |-> Pad2(i + 1),
         egRate1 |-> Pad2(op.egRate1), egRate2 |-> Pad2(op.egRate2),
         egRate3 |-> Pad2(op.egRate3), egRate4 |-> Pad2(op.egRate4),
         egLevel1 |-> Pad2(op.egLevel1), egLevel2 |-> Pad2(op.egLevel2),
         egLevel3 |-> Pad2(op.egLevel3), egLevel4 |-> Pad2(op.egLevel4),
         breakPoint |-> WithText(op.levelScaleBreakPoint,
                                 breakPoint(op.levelScaleBreakPoint)),
         leftDepth |-> Pad2(op.levelScaleLeftDepth),
         rightDepth |-> Pad2(op.levelScaleRightDepth),
         leftCurve |-> WithText(op.levelScaleLeftCurve, curve(op.levelScaleLeftCurve)),
         rightCurve |-> WithText(op.levelScaleRightCurve,
                                 curve(op.levelScaleRightCurve)),
         oscillatorRateScale |-> Pad2(op.oscillatorRateScale),
         ampModSense |-> Pad2(op.amplitudeModulationSensitivity),
         keyVelocitySense |-> Pad2(op.keyVelocitySensitivity),
         outputLevel |-> Pad2(op.outputLevel),
         oscillatorMode |-> WithText(op.oscillatorMode, mode(op.oscillatorMode)),
         \* fixed mode prints pow(10, coarse % 4 + fine / 100) as a double; the
         \* exponent is kept in hundredths
         frequencyCoarse |->
             IF op.oscillatorMode = 0 THEN Pad2(op.frequencyCoarse)
             ELSE "pow(10, " \o ToString(100 * (op.frequencyCoarse % 4)
                                         + op.frequencyFine) \o "/100) Hz",
         frequencyFine |-> Pad2(op.frequencyFine),
         detune |-> Pad2(op.detune)]

\* iteration i of the operator loop, main.cpp:330-382
OperatorSection(buf, v, i) == OperatorText(OperatorPacked(buf, v, OperatorSlot(i)), i)

\* the line of the short listing, main.cpp:292
ShortLine(buf, v) ==
    [kind |-> "short", voice |-> Pad2(v + 1), name |-> CStr(VoiceName(buf, v))]

\* the block of the long listing, main.cpp:296-384
LongBlock(buf, v) ==
    LET voice == VoicePacked(buf, v)
    IN  [kind |-> "long",
         filename |-> Filename,
         voice |-> Pad2(v + 1),
         name |-> CStr(VoiceName(buf, v)),
         algorithm |-> Pad2(voice.algorithm + 1),
         pitchEgRate1 |-> Pad2(voice.pitchEgRate1),
         pitchEgRate2 |-> Pad2(voice.pitchEgRate2),
         pitchEgRate3 |-> Pad2(voice.pitchEgRate3),
         pitchEgRate4 |-> Pad2(voice.pitchEgRate4),
         pitchEgLevel1 |-> Pad2(voice.pitchEgLevel1),
         pitchEgLevel2 |-> Pad2(voice.pitchEgLevel2),
         pitchEgLevel3 |-> Pad2(voice.pitchEgLevel3),
         pitchEgLevel4 |-> Pad2(voice.pitchEgLevel4),
         feedback |-> Pad2(voice.feedback),
         oscillatorKeySync |-> WithText(voice.oscillatorKeySync,
                                        onOff(voice.oscillatorKeySync)),
         lfoRate |-> Pad2(voice.lfoRate),
         lfoDelay |-> Pad2(voice.lfoDelay),
         lfoAmpModDepth |-> Pad2(voice.lfoAmplitudeModulationDepth),
         lfoPitchModDepth |-> Pad2(voice.lfoPitchModulationDepth),
         lfoKeySync |-> WithText(voice.lfoKeySync, onOff(voice.lfoKeySync)),
         lfoWave |-> WithText(voice.lfoWave, lfoWave(voice.lfoWave)),
         pitchModSense |-> Pad2(voice.lfoPitchModulationSensitivity),
         transpose |-> WithText(voice.transpose, transpose(voice.transpose)),
         operators |-> [i \in 1..NumOperators |-> OperatorSection(buf, v, i - 1)]]

---------------------------------------------------------------------------
(* verify(), main.cpp:227-277.                                             *)

Line(text) == [kind |-> "error", text |-> text]

\* one iteration of the loop at main.cpp:261-263; sum is an unsigned char
ChecksumStep(sum, byte) == ToUChar(sum + (byte % 128))

\* iterations lo .. hi-1 of that loop, in order, started with sum: those below
\* mid, then the others started with s, the value the first ones leave
RECURSIVE ChecksumLoop(_, _, _, _)
ChecksumLoop(buf, sum, lo, hi) ==
    IF hi <= lo THEN sum
    ELSE IF hi = lo + 1 THEN ChecksumStep(sum, At(buf, HeaderSize + lo))
    ELSE LET mid == (lo + hi) \div 2
         IN  CHOOSE r \in {ChecksumLoop(buf, s, mid, hi) :
                              s \in {ChecksumLoop(buf, sum, lo, mid)}} : TRUE

\* a plausible slip: the sum compared without taking its two's complement
ComputedChecksumNoComplement(buf) == ChecksumLoop(buf, 0, 0, PayloadSize) % 128

\* the value compared with sysex->checksum, main.cpp:258-269
ComputedChecksum(buf) ==
    LET sum == ChecksumLoop(buf, 0, 0, PayloadSize)
        twos == ToUChar((-sum - 1) + 1)
    IN  twos % 128

\* a plausible slip: the checksum compared before the markers
verifyChecksumFirst(buf) ==
    LET sum == ComputedChecksum(buf)
    IN  IF sum # At(buf, ChecksumOffset) THEN
            [rc |-> 1, out |-> <<Line("Checksum failed: Should have been 0x"
                                      \o ToString(sum))>>]
        ELSE IF At(buf, 0) # 240 THEN
            [rc |-> 1, out |-> <<Line("Did not find sysex start 0xF0.")>>]
        ELSE IF At(buf, 1) # 67 THEN
            [rc |-> 1, out |-> <<Line("Did not find Yamaha 0x43.")>>]
        ELSE IF At(buf, 2) # 0 THEN
            [rc |-> 1, out |-> <<Line("Did not find substatus 0 and channel 1.")>>]
        ELSE IF At(buf, 3) # 9 THEN
            [rc |-> 1, out |-> <<Line("Did not find format 9 (32 voices).")>>]
        ELSE IF At(buf, 4) # 32 \/ At(buf, 5) # 0 THEN
            [rc |-> 1, out |-> <<Line("Did not find size 4096.")>>]
        ELSE IF At(buf, EndOffset) # 247 THEN
            [rc |-> 1, out |-> <<Line("Did not find sysex end 0xF7.")>>]
        ELSE [rc |-> 0, out |-> <<>>]

\* the value returned and the lines printed
verify(buf) ==
    IF At(buf, 0) # 240 THEN
        [rc |-> 1, out |-> <<Line("Did not find sysex start 0xF0.")>>]
    ELSE IF At(buf, 1) # 67 THEN
        [rc |-> 1, out |-> <<Line("Did not find Yamaha 0x43.")>>]
    ELSE IF At(buf, 2) # 0 THEN
        [rc |-> 1, out |-> <<Line("Did not find substatus 0 and channel 1.")>>]
    ELSE IF At(buf, 3) # 9 THEN
        [rc |-> 1, out |-> <<Line("Did not find format 9 (32 voices).")>>]
    ELSE IF At(buf, 4) # 32 \/ At(buf, 5) # 0 THEN
        [rc |-> 1, out |-> <<Line("Did not find size 4096.")>>]
    ELSE IF At(buf, EndOffset) # 247 THEN
        [rc |-> 1, out |-> <<Line("Did not find sysex end 0xF7.")>>]
    ELSE LET sum == ComputedChecksum(buf)
         IN  IF sum # At(buf, ChecksumOffset) THEN
                 \* +sum is printed in decimal after the "0x"
                 [rc |-> 1, out |-> <<Line("Checksum failed: Should have been 0x"
                                           \o ToString(sum))>>]
             ELSE [rc |-> 0, out |-> <<>>]

---------------------------------------------------------------------------
(* findDuplicates(), main.cpp:390-401.                                     *)

\* a plausible slip: the name left in the comparison
CompareLengthWithName == VoiceSize

\* sizeof(VoicePacked) - 10
CompareLength == VoiceSize - NameSize

\* memcmp(&voices[i], &voices[j], CompareLength) == 0
SameVoice(buf, i, j) ==
    \A k \in 0..(CompareLength - 1) : VoiceByte(buf, i, k) = VoiceByte(buf, j, k)

DuplicateLine(i, j) == [kind |-> "dup", i |-> i + 1, j |-> j + 1]

\* the inner loop from j on
RECURSIVE DuplicatesInner(_, _, _)
DuplicatesInner(buf, i, j) ==
    IF j >= NumVoices THEN <<>>
    ELSE (IF SameVoice(buf, i, j) THEN <<DuplicateLine(i, j)>> ELSE <<>>)
         \o DuplicatesInner(buf, i, j + 1)

\* the outer loop from i on
RECURSIVE DuplicatesOuter(_, _)
DuplicatesOuter(buf, i) ==
    IF i >= NumVoices - 1 THEN <<>>
    ELSE DuplicatesInner(buf, i, i + 1) \o DuplicatesOuter(buf, i + 1)

\* the lines printed
findDuplicates(buf) == DuplicatesOuter(buf, 0)

---------------------------------------------------------------------------
(* The inputs: command lines and files.                                    *)

\* how far outside 1..32 the argument of -p goes
MaxOutside == 2

\* voices 0..MaxDupSlot and the last voice may be made copies of each other
MaxDupSlot == 1

\* the arguments of -p, as strtol returns them.  Every one fits an int, so the
\* conversion of the long to int at main.cpp:196 leaves it as it is.
PatchArgs ==
    ((-MaxOutside)..1) \cup (NumVoices..(NumVoices + MaxOutside - 1))

\* command lines without -v, -h or an unknown option
CommandLines ==
    [l : BOOLEAN, f : BOOLEAN, hasP : {FALSE}, p : {0}, file : BOOLEAN]
    \cup [l : {FALSE}, f : {FALSE}, hasP : {TRUE}, p : PatchArgs, file : {TRUE}]

FlipBit(b, bit) == IF Bits(b, bit, 1) = 1 THEN b - 2 ^ bit ELSE b + 2 ^ bit

SetMin(S) == CHOOSE m \in S : \A n \in S : m <= n

SetMax(S) == CHOOSE m \in S : \A n \in S : m >= n

\* byte k of voice v of the bank in which every voice differs from every other
BaseVoiceByte(v, k) ==
    IF k < VoiceSize - NameSize THEN (37 * v + 11 * k + 5) % 256
    ELSE IF v % 4 = 3 /\ k >= VoiceSize - 4 THEN 0
    ELSE 65 + ((v + k) % 26)

NoEdit == [offset |-> -1, bit |-> 0]

\* single-bit changes: parameter bits, unused bits of the packed bytes, name bits
Edits ==
    {[offset |-> 0, bit |-> 0], [offset |-> 117, bit |-> 0], [offset |-> 117, bit |-> 7],
     [offset |-> 11, bit |-> 4], [offset |-> 12, bit |-> 7], [offset |-> 13, bit |-> 5],
     [offset |-> 15, bit |-> 6], [offset |-> 110, bit |-> 5], [offset |-> 111, bit |-> 4],
     [offset |-> 118, bit |-> 0], [offset |-> 127, bit |-> 0]}

DupSlots == (0..MaxDupSlot) \cup {NumVoices - 1}

Groups == {g \in SUBSET DupSlots : Cardinality(g) >= 2}

\* a payload: the voices of group share the parameter bytes of the group's first
\* voice (with their names too when sameName), then one bit of the group's last
\* voice is changed
BasePayload == [group |-> {}, sameName |-> FALSE, edit |-> NoEdit]

Payloads ==
    {BasePayload}
    \cup [group : Groups, sameName : {FALSE}, edit : {NoEdit}]
    \cup [group : {{0, 1}}, sameName : {TRUE}, edit : {NoEdit}]
    \cup [group : {{0, NumVoices - 1}}, sameName : {FALSE}, edit : Edits]

PayloadByte(pl, v, k) ==
    LET src == IF v \in pl.group /\ (k < VoiceSize - NameSize \/ pl.sameName)
               THEN SetMin(pl.group) ELSE v
        b == BaseVoiceByte(src, k)
    IN  IF pl.group # {} /\ v = SetMax(pl.group) /\ k = pl.edit.offset
        THEN FlipBit(b, pl.edit.bit) ELSE b

\* the 4096 bytes of a payload
PayloadBytes(pl) ==
    [n \in 1..PayloadSize |-> PayloadByte(pl, (n - 1) \div VoiceSize, (n - 1) % VoiceSize)]
    \o <<>>

\* the sum of bytes lo+1 .. hi of a sequence, each masked to 7 bits, without any
\* wrapping
RECURSIVE SevenBitSum(_, _, _)
SevenBitSum(bytes, lo, hi) ==
    IF hi <= lo THEN 0
    ELSE IF hi = lo + 1 THEN bytes[hi] % 128
    ELSE LET mid == (lo + hi) \div 2
         IN  SevenBitSum(bytes, lo, mid) + SevenBitSum(bytes, mid, hi)

GoodHeader == <<240, 67, 0, 9, 32, 0, 247>>

\* how many of the six header bytes and the end byte may be wrong at once
MaxBad == 2

\* the six header bytes and the end byte, each right or wrong
Headers ==
    {h \in {240, 0} \X {67, 66} \X {0, 1} \X {9, 0} \X {32, 16} \X {0, 1} \X {247, 0} :
        Cardinality({n \in 1..7 : h[n] # GoodHeader[n]}) <= MaxBad}

\* the stored checksum: right, one bit off, or right with bit 7 set
StoredChecksum(sum, ck) ==
    LET c == (-sum) % 128
    IN  IF ck = "ok" THEN c ELSE IF ck = "off" THEN FlipBit(c, 0) ELSE c + 128

MkFile(h, bytes, ck) ==
    SubSeq(h, 1, HeaderSize) \o bytes
    \o <<StoredChecksum(SevenBitSum(bytes, 0, PayloadSize), ck), h[HeaderSize + 1]>>

BaseBytes == PayloadBytes(BasePayload)

GoodFile == MkFile(GoodHeader, BaseBytes, "ok")

\* the files read: every payload under a right header with a right or wrong
\* checksum, every header over one payload, and files one byte short, one byte
\* long and one byte in all
Files ==
    UNION {LET bytes == PayloadBytes(pl)
           IN  {MkFile(GoodHeader, bytes, ck) : ck \in {"ok", "off"}}
           : pl \in Payloads}
    \cup {MkFile(h, BaseBytes, ck) : h \in Headers, ck \in {"ok", "off", "high"}}
    \cup {<<240>>, SubSeq(GoodFile, 1, sysexSize - 1), GoodFile \o <<0>>}

---------------------------------------------------------------------------
(* main(), main.cpp:405-449, and processOptions(), main.cpp:166-223.       *)

NoRender == [fn |-> "none", text |-> ""]

Init ==
    /\ pc = "options"
    /\ displayLongListing = FALSE
    /\ shouldFindDuplicates = FALSE
    /\ patchToDisplay = -1
    /\ argc = 0
    /\ buffer = <<>>
    /\ verifyRc = -1
    /\ voiceNumber = 0
    /\ out = <<>>
    /\ exitCode = -1
    /\ x = 0
    /\ rendered = NoRender

Exit(lines, code) ==
    /\ out' = out \o lines
    /\ exitCode' = code
    /\ pc' = "done"

\* -v, main.cpp:198-203
ShowVersion ==
    /\ pc = "options"
    /\ Exit(<<[kind |-> "info", text |-> "dx7dump 1.01"],
              [kind |-> "info", text |-> "Yamaha DX7 Sysex Dump"],
              [kind |-> "info", text |-> "Copyright 2012, Ted Felix (GPLv3+)"],
              [kind |-> "info", text |-> "Updated in 2019 by Francois W. Nel"]>>, 0)
    /\ UNCHANGED <<displayLongListing, shouldFindDuplicates, patchToDisplay, argc,
                   buffer, verifyRc, voiceNumber, x, rendered>>

\* -h, main.cpp:204-211
ShowHelp ==
    /\ pc = "options"
    /\ Exit(<<[kind |-> "info", text |-> "Usage: dx7dump [OPTIONS] filename"]>>, 0)
    /\ UNCHANGED <<displayLongListing, shouldFindDuplicates, patchToDisplay, argc,
                   buffer, verifyRc, voiceNumber, x, rendered>>

\* an option getopt does not know, main.cpp:212-214
UnexpectedOption ==
    /\ pc = "options"
    /\ Exit(<<Line("Unexpected option. Try -h for help.")>>, 1)
    /\ UNCHANGED <<displayLongListing, shouldFindDuplicates, patchToDisplay, argc,
                   buffer, verifyRc, voiceNumber, x, rendered>>

\* the options -l, -f and -p N, main.cpp:188-197 and 219-222
ProcessOptions ==
    /\ pc = "options"
    /\ \E a \in CommandLines :
        /\ displayLongListing' = (a.l \/ a.hasP)
        /\ shouldFindDuplicates' = a.f
        /\ patchToDisplay' = IF a.hasP THEN a.p ELSE patchToDisplay
        /\ argc' = IF a.file THEN 1 ELSE 0
    /\ pc' = "argc"
    /\ UNCHANGED <<buffer, verifyRc, voiceNumber, out, exitCode, x, rendered>>

\* main.cpp:414-419
CheckArgc ==
    /\ pc = "argc"
    /\ IF argc = 0
       THEN Exit(<<Line("Error: Please specify a sysex file.")>>, 1)
       ELSE pc' = "open" /\ UNCHANGED <<out, exitCode>>
    /\ UNCHANGED <<displayLongListing, shouldFindDuplicates, patchToDisplay, argc,
                   buffer, verifyRc, voiceNumber, x, rendered>>

\* the file cannot be opened, main.cpp:423-426
OpenFails ==
    /\ pc = "open"
    /\ Exit(<<Line("Error: Can't open " \o Filename \o ": strerror(errno)")>>, 1)
    /\ UNCHANGED <<displayLongListing, shouldFindDuplicates, patchToDisplay, argc,
                   buffer, verifyRc, voiceNumber, x, rendered>>

\* the file is read whole, main.cpp:428-429
ReadFile ==
    /\ pc = "open"
    /\ \E f \in Files : buffer' = f
    /\ pc' = "size"
    /\ UNCHANGED <<displayLongListing, shouldFindDuplicates, patchToDisplay, argc,
                   verifyRc, voiceNumber, out, exitCode, x, rendered>>

\* main.cpp:431
SizeMismatch(buf) == Len(buf) # sysexSize

\* main.cpp:431-434
CheckSize ==
    /\ pc = "size"
    /\ IF SizeMismatch(buffer)
       THEN Exit(<<Line("Error: " \o Filename
                        \o " does not match the expected size of a sysex file.")>>, 1)
       ELSE pc' = "verify" /\ UNCHANGED <<out, exitCode>>
    /\ UNCHANGED <<displayLongListing, shouldFindDuplicates, patchToDisplay, argc,
                   buffer, verifyRc, voiceNumber, x, rendered>>

\* a plausible slip: the value returned by verify is ignored
VerifyFailedNever(rc) == FALSE

\* main.cpp:438
VerifyFailed(rc) == rc # 0

\* a plausible slip: only the line of main is printed
FailureLinesMainOnly(r) ==
    <<Line("Error: " \o Filename \o " is not a valid sysex file.")>>

\* what a failed verification prints: the line of verify, then the line of main
\* (main.cpp:439)
FailureLines(r) ==
    r.out \o <<Line("Error: " \o Filename \o " is not a valid sysex file.")>>

\* main.cpp:436-441
Verify ==
    /\ pc = "verify"
    /\ LET r == verify(buffer)
       IN  /\ verifyRc' = r.rc
           /\ IF VerifyFailed(r.rc)
              THEN Exit(FailureLines(r), 1)
              ELSE /\ out' = out \o r.out
                   /\ pc' = "format"
                   /\ UNCHANGED exitCode
    /\ UNCHANGED <<displayLongListing, shouldFindDuplicates, patchToDisplay, argc,
                   buffer, voiceNumber, x, rendered>>

\* the continue at main.cpp:283; patch is a long, v an unsigned
SkipsVoice(patch, v) == patch >= 0 /\ patch # v + 1

\* what one iteration of the loop of format() prints, main.cpp:283-384
VoiceLines(buf, long, patch, v) ==
    IF SkipsVoice(patch, v) THEN <<>>
    ELSE IF ~long THEN <<ShortLine(buf, v)>>
    ELSE <<LongBlock(buf, v)>>

\* one iteration of the loop of format()
FormatVoice ==
    /\ pc = "format"
    /\ voiceNumber < NumVoices
    /\ out' = out \o VoiceLines(buffer, displayLongListing, patchToDisplay, voiceNumber)
    /\ voiceNumber' = voiceNumber + 1
    /\ UNCHANGED <<pc, displayLongListing, shouldFindDuplicates, patchToDisplay, argc,
                   buffer, verifyRc, exitCode, x, rendered>>

\* format() returns, main.cpp:445 and 448
FormatReturns ==
    /\ pc = "format"
    /\ voiceNumber >= NumVoices
    /\ IF shouldFindDuplicates
       THEN pc' = "duplicates" /\ UNCHANGED exitCode
       ELSE pc' = "done" /\ exitCode' = 0
    /\ UNCHANGED <<displayLongListing, shouldFindDuplicates, patchToDisplay, argc,
                   buffer, verifyRc, voiceNumber, out, x, rendered>>

\* main.cpp:446-448
FindDuplicates ==
    /\ pc = "duplicates"
    /\ Exit(findDuplicates(buffer), 0)
    /\ UNCHANGED <<displayLongListing, shouldFindDuplicates, patchToDisplay, argc,
                   buffer, verifyRc, voiceNumber, x, rendered>>

Next ==
    \/ ShowVersion
    \/ ShowHelp
    \/ UnexpectedOption
    \/ ProcessOptions
    \/ CheckArgc
    \/ OpenFails
    \/ ReadFile
    \/ CheckSize
    \/ Verify
    \/ FormatVoice
    \/ FormatReturns
    \/ FindDuplicates

Spec == Init /\ [][Next]_vars

---------------------------------------------------------------------------
(* The rendering functions applied to every byte.                          *)

Byte == 0..255

InitRender ==
    /\ pc = "render"
    /\ displayLongListing = FALSE
    /\ shouldFindDuplicates = FALSE
    /\ patchToDisplay = -1
    /\ argc = 0
    /\ buffer = <<>>
    /\ verifyRc = -1
    /\ voiceNumber = 0
    /\ out = <<>>
    /\ exitCode = -1
    /\ x \in Byte
    /\ rendered = NoRender

Transpose ==
    /\ pc = "render"
    /\ rendered' = [fn |-> "transpose", text |-> transpose(x)]
    /\ UNCHANGED <<mainVars, x>>

BreakPoint ==
    /\ pc = "render"
    /\ rendered' = [fn |-> "breakPoint", text |-> breakPoint(x)]
    /\ UNCHANGED <<mainVars, x>>

NextRender == Transpose \/ BreakPoint

SpecRender == InitRender /\ [][NextRender]_vars

---------------------------------------------------------------------------
(* What the claims speak of, stated without the program's own definitions. *)

NoteNames == <<"C", "C#", "D", "D#", "E", "F", "F#", "G", "G#", "A", "A#", "B">>

IsVoiceLine(l) == l.kind \in {"short", "long"}

IsDuplicateLine(l) == l.kind = "dup"

NoVoiceOutput == \A n \in 1..Len(out) : ~IsVoiceLine(out[n]) /\ ~IsDuplicateLine(out[n])

\* the lines of kind k, in the order printed
RECURSIVE LinesOfKind(_, _)
LinesOfKind(lines, kinds) ==
    IF lines = <<>> THEN <<>>
    ELSE (IF Head(lines).kind \in kinds THEN <<Head(lines)>> ELSE <<>>)
         \o LinesOfKind(Tail(lines), kinds)

\* the stored checksum is (-(sum of (b & 0x7F))) mod 128, the sum unbounded
StoredChecksumRight(buf) ==
    At(buf, 4102) = (-SevenBitSum(SubSeq(buf, 7, 4102), 0, 4096)) % 128

\* the number of the first check of the seven that buf fails, 0 when it passes all
FirstFailing(buf) ==
    IF At(buf, 0) # 240 THEN 1
    ELSE IF At(buf, 1) # 67 THEN 2
    ELSE IF At(buf, 2) # 0 THEN 3
    ELSE IF At(buf, 3) # 9 THEN 4
    ELSE IF ~(At(buf, 4) = 32 /\ At(buf, 5) = 0) THEN 5
    ELSE IF At(buf, 4103) # 247 THEN 6
    ELSE IF ~StoredChecksumRight(buf) THEN 7
    ELSE 0

\* the message of each check; the seventh goes on with the expected value
CheckMessage ==
    <<"Did not find sysex start 0xF0.",
      "Did not find Yamaha 0x43.",
      "Did not find substatus 0 and channel 1.",
      "Did not find format 9 (32 voices).",
      "Did not find size 4096.",
      "Did not find sysex end 0xF7.",
      "Checksum failed: Should have been 0x">>

ExpectedMessage(buf, k) ==
    IF k < 7 THEN CheckMessage[k]
    ELSE CheckMessage[7] \o ToString((-SevenBitSum(SubSeq(buf, 7, 4102), 0, 4096)) % 128)

NotValidLine == Line("Error: " \o Filename \o " is not a valid sysex file.")

WrongSizeLine ==
    Line("Error: " \o Filename \o " does not match the expected size of a sysex file.")

\* verify has just returned
JustVerified ==
    \/ pc = "format" /\ voiceNumber = 0
    \/ pc = "done" /\ verifyRc = 1

\* C9: for every byte x, transpose(x) is the note notes[x mod 12] followed by the
\* octave x div 12 + 1 when x <= 48 and "*out of range*" exactly when x > 48;
\* 0 gives "C1", 12 "C2", 48 "C5" and 49 the sentinel.
C9_Transpose ==
    rendered.fn = "transpose" =>
        /\ x <= 48 => rendered.text = NoteNames[(x % 12) + 1] \o ToString((x \div 12) + 1)
        /\ (rendered.text = "*out of range*") <=> (x > 48)
        /\ x = 0 => rendered.text = "C1"
        /\ x = 12 => rendered.text = "C2"
        /\ x = 48 => rendered.text = "C5"
        /\ x = 49 => rendered.text = "*out of range*"

C9_Witness == rendered.fn = "transpose" /\ x = 48 /\ rendered.text = "C5"

\* C10: for every byte x <= 99, breakPoint(x) is the note notes[(x+9) mod 12]
\* followed by the octave ((x - 3 + 12) div 12) - 1, which is the floor of
\* (x - 3) / 12 also for x in 0..2, so that 12 * octave + note index = x - 3 and
\* 0 gives "A-1"; for x > 99 it is "*out of range*".
C10_BreakPoint ==
    rendered.fn = "breakPoint" =>
        LET index == (x + 9) % 12
            octave == ((x - 3 + 12) \div 12) - 1
        IN  /\ x <= 99 =>
                /\ rendered.text = NoteNames[index + 1] \o ToString(octave)
                /\ \E q \in -1..8 :
                    /\ 12 * q <= x - 3
                    /\ x - 3 < 12 * (q + 1)
                    /\ rendered.text = NoteNames[index + 1] \o ToString(q)
                /\ 12 * octave + index = x - 3
            /\ x = 0 => rendered.text = "A-1"
            /\ x > 99 => rendered.text = "*out of range*"

C10_Witness == rendered.fn = "breakPoint" /\ x = 0 /\ rendered.text = "A-1"

\* C1: verify applies the seven checks in the fixed order and stops at the first
\* that fails: the one message it prints is that of the lowest-numbered failing
\* check, the messages of the checks differ from each other, and a buffer that
\* fails both the vendor-marker check and the checksum check gets the
\* vendor-marker message.
C1_FirstFailingCheckReported ==
    JustVerified =>
        LET k == FirstFailing(buffer)
            said == LinesOfKind(out, {"error"})
        IN  /\ \A a, b \in 1..7 : a # b => CheckMessage[a] # CheckMessage[b]
            /\ k = 0 => verifyRc = 0 /\ said = <<>>
            /\ k # 0 =>
                /\ verifyRc = 1
                /\ said[1] = Line(ExpectedMessage(buffer, k))
                /\ \A n \in 2..Len(said) : \A c \in 1..7 :
                       said[n] # Line(ExpectedMessage(buffer, c))

C1_Witness ==
    /\ JustVerified
    /\ At(buffer, 0) = 240
    /\ At(buffer, 1) # 67
    /\ ~StoredChecksumRight(buffer)
    /\ out[1] = Line("Did not find Yamaha 0x43.")

\* C2: when the six marker checks pass, verify accepts if and only if the stored
\* checksum byte equals (-(sum of (b & 0x7F))) mod 128 with the sum taken without
\* wrapping: the 8-bit accumulation of the code gives the same result.
C2_ChecksumAccepts ==
    (/\ JustVerified
     /\ At(buffer, 0) = 240 /\ At(buffer, 1) = 67 /\ At(buffer, 2) = 0
     /\ At(buffer, 3) = 9 /\ At(buffer, 4) = 32 /\ At(buffer, 5) = 0
     /\ At(buffer, 4103) = 247)
    => ((verifyRc = 0) <=> StoredChecksumRight(buffer))

\* an accepted payload whose sum does not fit 8 bits and that has bytes above 127
C2_Witness ==
    /\ JustVerified
    /\ verifyRc = 0
    /\ SevenBitSum(SubSeq(buffer, 7, 4102), 0, 4096) > 255
    /\ \E n \in 7..4102 : buffer[n] > 127

\* C3: voice lines and duplicate reports are printed only once the buffer was
\* found 4104 bytes long and verify has returned 0 for it, which it does only for
\* a buffer that passes the seven checks; the buffer is not changed afterwards; a
\* run that ends in a failure has printed neither; and duplicate reports are
\* printed only after the loop over the 32 voices has ended, after every voice
\* line.
C3_OutputOnlyAfterValidation ==
    /\ [](exitCode = 1 => NoVoiceOutput)
    /\ [][/\ (verifyRc' = 0 /\ verifyRc # 0) =>
                (Len(buffer') = 4104 /\ FirstFailing(buffer') = 0)
          /\ verifyRc = 0 => (buffer' = buffer /\ verifyRc' = 0)
          /\ \A n \in (Len(out) + 1)..Len(out') :
                /\ IsVoiceLine(out'[n]) =>
                      (verifyRc = 0 /\ \A m \in 1..Len(out) : ~IsDuplicateLine(out[m]))
                /\ IsDuplicateLine(out'[n]) =>
                      (verifyRc = 0 /\ shouldFindDuplicates /\ voiceNumber = 32)]_vars

\* all 32 voices printed, then duplicates reported
C3_Witness ==
    /\ pc = "done"
    /\ Len(LinesOfKind(out, {"short", "long"})) = 32
    /\ IsDuplicateLine(out[Len(out)])

\* C4 as claimed: on a wrong length, a failing marker check or a checksum
\* mismatch the process prints a single message and ends with exit code 1.
C4_SingleMessage ==
    (pc = "done" /\ buffer # <<>> /\ (Len(buffer) # 4104 \/ verifyRc = 1)) =>
        (exitCode = 1 /\ Len(out) = 1)

\* C4, amended: on a wrong length the process prints one message; on a failing
\* marker check or a checksum mismatch it prints two, the message of the first
\* failing check and then the line saying that the file is not a valid sysex
\* file; either way it prints no voice line and ends with exit code 1.  With the
\* start marker 0x00 the output is the start-marker message and that line.
C4_FatalErrors ==
    (pc = "done" /\ buffer # <<>>) =>
        /\ Len(buffer) # 4104 => (exitCode = 1 /\ out = <<WrongSizeLine>>)
        /\ (Len(buffer) = 4104 /\ FirstFailing(buffer) # 0) =>
              /\ exitCode = 1
              /\ out = <<Line(ExpectedMessage(buffer, FirstFailing(buffer))), NotValidLine>>
        /\ (Len(buffer) = 4104 /\ At(buffer, 0) = 0) =>
              out = <<Line("Did not find sysex start 0xF0."), NotValidLine>>
        /\ (Len(buffer) = 4104 /\ FirstFailing(buffer) = 0) => exitCode = 0

C4_Witness ==
    /\ pc = "done"
    /\ Len(buffer) = 4104
    /\ At(buffer, 0) = 0
    /\ \A n \in 2..4104 : buffer[n] = GoodFile[n]
    /\ exitCode = 1

\* findDuplicates has run
DuplicatesDone == pc = "done" /\ exitCode = 0 /\ shouldFindDuplicates

\* the pairs reported, in the order printed
Reported == LinesOfKind(out, {"dup"})

\* voices i and j (1-based) agree on the first nBytes bytes of their records
SamePrefix(buf, i, j, nBytes) ==
    \A k \in 0..(nBytes - 1) :
        At(buf, 6 + 128 * (i - 1) + k) = At(buf, 6 + 128 * (j - 1) + k)

\* C5: findDuplicates reports exactly the pairs (i,j), 1 <= i < j <= 32, whose
\* first 118 bytes are the same, each once, in ascending (i,j) order; the name
\* bytes play no part.
C5_DuplicatePairs ==
    DuplicatesDone =>
        /\ \A i \in 1..32 : \A j \in (i + 1)..32 :
              SamePrefix(buffer, i, j, 118)
              <=> (\E n \in 1..Len(Reported) : Reported[n].i = i /\ Reported[n].j = j)
        /\ \A n \in 1..Len(Reported) :
              /\ 1 <= Reported[n].i /\ Reported[n].i < Reported[n].j /\ Reported[n].j <= 32
        /\ \A n \in 1..(Len(Reported) - 1) :
              \/ Reported[n].i < Reported[n + 1].i
              \/ Reported[n].i = Reported[n + 1].i /\ Reported[n].j < Reported[n + 1].j

\* voice 1 is reported with two other voices, whose names differ from its own
C5_Witness ==
    /\ DuplicatesDone
    /\ Len(Reported) = 3
    /\ Reported[1] = [kind |-> "dup", i |-> 1, j |-> 2]
    /\ Reported[2] = [kind |-> "dup", i |-> 1, j |-> 32]
    /\ ~SamePrefix(buffer, 1, 2, 128)
    /\ ~SamePrefix(buffer, 1, 32, 128)

\* the parameters of voice v (0-based): every member of the record but the name
Parameters(buf, v) ==
    <<VoicePacked(buf, v), [j \in 0..5 |-> OperatorPacked(buf, v, j)]>>

\* C6: every pair of voices i < j whose decoded parameter values, each taken at
\* its declared width, are all equal is reported as a duplicate pair.
C6_ParameterIdenticalReported ==
    DuplicatesDone =>
        \A i \in 1..32 : \A j \in (i + 1)..32 :
            Parameters(buffer, i - 1) = Parameters(buffer, j - 1)
            => (\E n \in 1..Len(Reported) : Reported[n].i = i /\ Reported[n].j = j)

\* the voice lines printed
VoiceOutput == LinesOfKind(out, {"short", "long"})

\* C7: with -p N on a validated bank only the long block of voice N is printed,
\* and for every N outside 1..32, 0 and the negative ones too, no voice line is
\* printed.  (-p -1 leaves the state that -l alone leaves, so N = -1 is left out.)
C7_PatchFilter ==
    (patchToDisplay # -1 /\ verifyRc = 0) =>
        /\ patchToDisplay \in 1..32 =>
              /\ \A n \in 1..Len(VoiceOutput) :
                    VoiceOutput[n].kind = "long"
                    /\ VoiceOutput[n].voice = Pad2(patchToDisplay)
              /\ pc = "done" => Len(VoiceOutput) = 1
        /\ patchToDisplay \notin 1..32 => VoiceOutput = <<>>

\* C8: in every long block the six operator sections are labelled 01 .. 06 in
\* this order, and the section of operator i+1 shows the values stored in disk
\* slot 5-i of the voice's operator block: operator 1 those of slot 5, operator 6
\* those of slot 0.
C8_OperatorOrder ==
    (out # <<>> /\ out[Len(out)].kind = "long") =>
        LET block == out[Len(out)]
            v == CHOOSE w \in 0..31 : Pad2(w + 1) = block.voice
        IN  /\ Len(block.operators) = 6
            /\ \A i \in 0..5 :
                  /\ block.operators[i + 1].operator = Pad2(i + 1)
                  /\ block.operators[i + 1] = OperatorText(OperatorPacked(buffer, v, 5 - i), i)
                  /\ block.operators[i + 1].egRate1
                         = Pad2(At(buffer, 6 + 128 * v + 17 * (5 - i)))
                  /\ block.operators[i + 1].frequencyFine
                         = Pad2(At(buffer, 6 + 128 * v + 17 * (5 - i) + 16))

\* a block whose operator 1 and operator 6 show different values
C8_Witness ==
    /\ out # <<>>
    /\ out[Len(out)].kind = "long"
    /\ out[Len(out)].operators[1].egRate1 # out[Len(out)].operators[6].egRate1
    /\ out[Len(out)].operators[1].egRate1 = Pad2(VoiceByte(buffer, voiceNumber - 1, 85))

====
